---------------------------- MODULE Spec2Model ----------------------------
(***************************************************************************)
(* A model of task1.py: the contact Record, the AddressBook (a UserDict    *)
(* keyed by name), the birthday query get_birthdays_per_week and the       *)
(* command loop main().                                                    *)
(*                                                                         *)
(* Python strings are sequences of one-character strings.  The character   *)
(* written "sup2" stands for U+00B2 SUPERSCRIPT TWO, a character for which *)
(* str.isdigit() is true although it is not a decimal digit.  A calendar   *)
(* date is a record [year, month, day]; an optional value is <<>> (None)   *)
(* or <<v>>.  A call that may raise returns [exc, val] with exc = "" when  *)
(* it returned normally.                                                   *)
(***************************************************************************)
EXTENDS Integers, Sequences, FiniteSets, TLC

VARIABLES
    heap,     \* the Record objects alive: id -> [name, phone, birthday]
    data,     \* AddressBook.data: insertion-ordered sequence of [key, rec]
    clock,    \* the date the system clock shows (datetime.today().date())
    ticks,    \* number of midnights passed since the start
    last,     \* the last call made and what it gave
    pc,       \* main(): "loop", "exited" (break) or "crashed" (uncaught)
    printed   \* main(): the last text handed to print()

vars == <<heap, data, clock, ticks, last, pc, printed>>

----------------------------------------------------------------------------
(* Bounds of the model *)

MaxRecords == 2      \* Record objects alive at once
MaxTicks == 7        \* midnights the clock may pass in one behaviour

RecIds == 1..MaxRecords

----------------------------------------------------------------------------
(* Characters and strings *)

AsciiDigits == {"0", "1", "2", "3", "4", "5", "6", "7", "8", "9"}

\* Characters c outside 0-9 with c.isdigit() true (Numeric_Type=Digit).
OtherDigits == {"sup2"}

Whitespace == {" "}

UpperCase == <<"A", "B", "C", "D", "E", "F", "G", "H", "I", "J", "K", "L", "M",
               "N", "O", "P", "Q", "R", "S", "T", "U", "V", "W", "X", "Y", "Z">>
LowerCase == <<"a", "b", "c", "d", "e", "f", "g", "h", "i", "j", "k", "l", "m",
               "n", "o", "p", "q", "r", "s", "t", "u", "v", "w", "x", "y", "z">>

DigitValue(c) ==
    CASE c = "0" -> 0 [] c = "1" -> 1 [] c = "2" -> 2 [] c = "3" -> 3
      [] c = "4" -> 4 [] c = "5" -> 5 [] c = "6" -> 6 [] c = "7" -> 7
      [] c = "8" -> 8 [] c = "9" -> 9

\* str.isdigit(): non-empty and every character is a digit character.
IsDigitStr(s) ==
    /\ Len(s) > 0
    /\ \A i \in 1..Len(s) : s[i] \in AsciiDigits \cup OtherDigits

\* str.lower() on one character.
LowerChar(c) ==
    IF \E i \in 1..Len(UpperCase) : UpperCase[i] = c
    THEN LowerCase[CHOOSE i \in 1..Len(UpperCase) : UpperCase[i] = c]
    ELSE c

Lower(s) == [i \in 1..Len(s) |-> LowerChar(s[i])]

RECURSIVE SplitOn(_, _, _)
\* The fields of s between separator characters, empty fields kept
\* (cur is the field being read).
SplitOn(s, seps, cur) ==
    IF s = <<>> THEN <<cur>>
    ELSE IF Head(s) \in seps
         THEN <<cur>> \o SplitOn(Tail(s), seps, <<>>)
         ELSE SplitOn(Tail(s), seps, Append(cur, Head(s)))

\* str.split() without arguments: runs of whitespace separate the words
\* and no empty word is produced.
Split(s) == SelectSeq(SplitOn(s, Whitespace, <<>>), LAMBDA w : w # <<>>)

RECURSIVE IntOf(_)
\* int() of a string of ASCII digits.
IntOf(s) ==
    IF s = <<>> THEN 0
    ELSE 10 * IntOf(SubSeq(s, 1, Len(s) - 1)) + DigitValue(s[Len(s)])

----------------------------------------------------------------------------
(* Results of calls *)

Return(v) == [exc |-> "", val |-> v]
Raise(e) == [exc |-> e, val |-> <<>>]

None == <<>>
Some(v) == <<v>>

----------------------------------------------------------------------------
(* datetime.date *)

IsLeap(y) == y % 4 = 0 /\ (y % 100 # 0 \/ y % 400 = 0)

DaysInMonth(y, m) ==
    IF m = 2 THEN (IF IsLeap(y) THEN 29 ELSE 28)
    ELSE IF m \in {4, 6, 9, 11} THEN 30 ELSE 31

DaysBeforeYear(y) ==
    LET p == y - 1 IN p * 365 + (p \div 4) - (p \div 100) + (p \div 400)

RECURSIVE DaysBeforeMonth(_, _)
DaysBeforeMonth(y, m) ==
    IF m = 1 THEN 0 ELSE DaysBeforeMonth(y, m - 1) + DaysInMonth(y, m - 1)

\* date.toordinal(): 1 is 0001-01-01.
ToOrdinal(d) == DaysBeforeYear(d.year) + DaysBeforeMonth(d.year, d.month) + d.day

\* date.weekday(): Monday is 0, Sunday is 6.
Weekday(d) == (ToOrdinal(d) + 6) % 7

\* date(y, m, d) is a date: MINYEAR..MAXYEAR, month and day in range.
ValidDate(y, m, d) ==
    /\ y \in 1..9999
    /\ m \in 1..12
    /\ d \in 1..DaysInMonth(y, m)

MakeDate(y, m, d) == [year |-> y, month |-> m, day |-> d]

NextDay(d) ==
    IF d.day < DaysInMonth(d.year, d.month) THEN [d EXCEPT !.day = d.day + 1]
    ELSE IF d.month < 12 THEN MakeDate(d.year, d.month + 1, 1)
    ELSE MakeDate(d.year + 1, 1, 1)

RECURSIVE AddDays(_, _)
\* date + timedelta(days=n), n >= 0.
AddDays(d, n) == IF n = 0 THEN d ELSE AddDays(NextDay(d), n - 1)

\* (a - b).days
DaysBetween(a, b) == ToOrdinal(a) - ToOrdinal(b)

\* Mutation: 29 February becomes 28 February in a year without it.
ReplaceYearClamp(d, y) ==
    IF ValidDate(y, d.month, d.day) THEN Return([d EXCEPT !.year = y])
    ELSE Return(MakeDate(y, d.month, DaysInMonth(y, d.month)))

\* date.replace(year=y): ValueError when the day does not exist in year y.
ReplaceYear(d, y) ==
    IF ValidDate(y, d.month, d.day)
    THEN Return([d EXCEPT !.year = y])
    ELSE Raise("ValueError")

----------------------------------------------------------------------------
(* datetime.strptime(s, "%d.%m.%Y").date() *)

AllAscii(f) == \A i \in 1..Len(f) : f[i] \in AsciiDigits

\* %d: 3[0-1] | [1-2]\d | 0[1-9] | [1-9] | " "[1-9]
MatchesDay(f) ==
    \/ Len(f) = 2 /\ AllAscii(f) /\ IntOf(f) \in 1..31
    \/ Len(f) = 1 /\ AllAscii(f) /\ IntOf(f) \in 1..9
    \/ Len(f) = 2 /\ f[1] = " " /\ AllAscii(Tail(f)) /\ IntOf(Tail(f)) \in 1..9

\* %m: 1[0-2] | 0[1-9] | [1-9]
MatchesMonth(f) ==
    \/ Len(f) = 2 /\ AllAscii(f) /\ IntOf(f) \in 1..12
    \/ Len(f) = 1 /\ AllAscii(f) /\ IntOf(f) \in 1..9

\* %Y: \d\d\d\d
MatchesYear(f) == Len(f) = 4 /\ AllAscii(f)

FieldValue(f) == IF f[1] = " " THEN IntOf(Tail(f)) ELSE IntOf(f)

Strptime(s) ==
    LET fields == SplitOn(s, {"."}, <<>>) IN
    IF /\ Len(fields) = 3
       /\ MatchesDay(fields[1])
       /\ MatchesMonth(fields[2])
       /\ MatchesYear(fields[3])
    THEN LET y == IntOf(fields[3])
             m == IntOf(fields[2])
             d == FieldValue(fields[1])
         IN IF ValidDate(y, m, d) THEN Return(MakeDate(y, m, d))
            ELSE Raise("ValueError")
    ELSE Raise("ValueError")

----------------------------------------------------------------------------
(* Phone, Record *)

PhoneLen == 10

\* Phone.__init__
PhoneInit(value) ==
    IF Len(value) # PhoneLen \/ ~IsDigitStr(value)
    THEN Raise("InvalidPhoneNumberError")
    ELSE Return(value)

\* Record.__init__
RecordInit(name, phone) ==
    LET p == PhoneInit(phone) IN
    IF p.exc # "" THEN Raise(p.exc)
    ELSE Return([name |-> name, phone |-> p.val, birthday |-> None])

\* A method call on an object: what it raised and the object afterwards.
Outcome(exc, self) == [exc |-> exc, val |-> self]

\* Mutation: update_phone rebuilds the object, as __init__ does.
RecordUpdatePhoneRebuild(record, new_phone_number) ==
    LET p == PhoneInit(new_phone_number) IN
    IF p.exc # "" THEN Outcome(p.exc, record)
    ELSE Outcome("", [name |-> record.name, phone |-> p.val, birthday |-> None])

\* Mutation: add_birthday clears the field before it parses.
RecordAddBirthdayClearFirst(record, birthday) ==
    LET d == Strptime(birthday) IN
    IF d.exc # "" THEN Outcome(d.exc, [record EXCEPT !.birthday = None])
    ELSE Outcome("", [record EXCEPT !.birthday = Some(d.val)])

\* Record.add_birthday: the assignment happens only if strptime returned.
RecordAddBirthday(record, birthday) ==
    LET d == Strptime(birthday) IN
    IF d.exc # "" THEN Outcome(d.exc, record)
    ELSE Outcome("", [record EXCEPT !.birthday = Some(d.val)])

\* Record.update_phone: the assignment happens only if Phone() returned.
RecordUpdatePhone(record, new_phone_number) ==
    LET p == PhoneInit(new_phone_number) IN
    IF p.exc # "" THEN Outcome(p.exc, record)
    ELSE Outcome("", [record EXCEPT !.phone = p.val])

----------------------------------------------------------------------------
(* AddressBook: self.data is a dict, kept here in insertion order *)

HasKey(d, k) == \E i \in 1..Len(d) : d[i].key = k

IndexOf(d, k) == CHOOSE i \in 1..Len(d) : d[i].key = k

\* Mutation: the book is a list of entries and add_record appends.
SetItemAppend(d, k, r) == Append(d, [key |-> k, rec |-> r])

\* d[k] = r: a present key keeps its place and gets the new value.
SetItem(d, k, r) ==
    IF HasKey(d, k)
    THEN [d EXCEPT ![IndexOf(d, k)] = [key |-> k, rec |-> r]]
    ELSE Append(d, [key |-> k, rec |-> r])

\* AddressBook.add_record
AddRecordData(d, h, r) == SetItem(d, h[r].name, r)

\* AddressBook.find: UserDict.__getitem__
FindData(d, name) ==
    IF HasKey(d, name) THEN Return(d[IndexOf(d, name)].rec)
    ELSE Raise("KeyError")

\* Mutation: dict.pop(name, None), silent on an absent key.
DeleteDataQuiet(d, name) == Outcome("", SelectSeq(d, LAMBDA e : e.key # name))

\* AddressBook.delete: dict.pop(name) without a default; the dict after.
DeleteData(d, name) ==
    IF HasKey(d, name) THEN Outcome("", SelectSeq(d, LAMBDA e : e.key # name))
    ELSE Outcome("KeyError", d)

----------------------------------------------------------------------------
(* AddressBook.get_birthdays_per_week *)

WindowDays == 7

\* Lines 69-76: the birthday in today's year, or in the next year when
\* that is today or earlier; ValueError (caught, contact skipped) when
\* date.replace finds no such day.
NextBirthday(birthday, today) ==
    LET first == ReplaceYear(birthday, today.year) IN
    IF first.exc # "" THEN first
    ELSE IF ToOrdinal(first.val) <= ToOrdinal(today)
         THEN ReplaceYear(first.val, first.val.year + 1)
         ELSE first

\* Mutation: only a Sunday is moved.
DateToCongratulateSundayOnly(next_birthday) ==
    IF Weekday(next_birthday) \in {6}
    THEN AddDays(next_birthday, 7 - Weekday(next_birthday))
    ELSE next_birthday

\* Lines 79-84: a Saturday or Sunday moves to the Monday after it.
DateToCongratulate(next_birthday) ==
    IF Weekday(next_birthday) \in {5, 6}
    THEN AddDays(next_birthday, 7 - Weekday(next_birthday))
    ELSE next_birthday

\* Mutation: the seventh day is already outside the window.
TooFarFromSeven(date_to_congratulate, today) ==
    DaysBetween(date_to_congratulate, today) >= WindowDays

\* Line 87
TooFar(date_to_congratulate, today) ==
    DaysBetween(date_to_congratulate, today) > WindowDays

\* defaultdict(list): upcoming_birthdays[k].append(name)
AppendTo(buckets, k, name) ==
    IF k \in DOMAIN buckets
    THEN [buckets EXCEPT ![k] = Append(@, name)]
    ELSE [j \in DOMAIN buckets \cup {k} |->
            IF j = k THEN <<name>> ELSE buckets[j]]

\* One iteration of the loop (lines 60-92) for entry e, with today the
\* date datetime.today() gives in this iteration.
VisitEntry(buckets, e, h, today) ==
    LET birthday == h[e.rec].birthday IN
    IF birthday = None THEN buckets
    ELSE LET nb == NextBirthday(birthday[1], today) IN
         IF nb.exc # "" THEN buckets
         ELSE LET d == DateToCongratulate(nb.val) IN
              IF TooFar(d, today) THEN buckets
              ELSE AppendTo(buckets, Weekday(d), e.key)

RECURSIVE UpcomingBirthdays(_, _, _, _)
\* The loop over self.data.items(); todayAt[i] is the clock's date during
\* iteration i.
UpcomingBirthdays(d, h, todayAt, n) ==
    IF n = 0 THEN [j \in {} |-> <<>>]
    ELSE VisitEntry(UpcomingBirthdays(d, h, todayAt, n - 1), d[n], h, todayAt[n])

\* The dates the clock shows in the iterations when midnight passes just
\* before iteration k (k = Len(d) + 1: not during the loop).
TodayAt(d, now, k) == [i \in 1..Len(d) |-> IF i < k THEN now ELSE NextDay(now)]

\* The values the local variable today took: None where line 66 is not
\* reached (no birthday).
TodaysRead(d, h, todayAt) ==
    [i \in 1..Len(d) |->
        IF h[d[i].rec].birthday = None THEN None ELSE Some(todayAt[i])]

----------------------------------------------------------------------------
(* Inputs *)

Ann == <<"a", "n", "n">>
Bob == <<"b", "o", "b">>
Names == {Ann, Bob}

PhoneA == <<"0", "1", "2", "3", "4", "5", "6", "7", "8", "9">>
PhoneB == <<"9", "8", "7", "6", "5", "4", "3", "2", "1", "0">>
PhoneSup == [i \in 1..10 |-> "sup2"]
PhoneShort == SubSeq(PhoneA, 1, 9)
PhoneLong == PhoneA \o <<"0">>
PhoneLetter == PhoneShort \o <<"a">>
PhoneInputs == {PhoneA, PhoneB, PhoneSup, PhoneShort, PhoneLong, PhoneLetter, <<>>}

Bday_15_06_1990 == <<"1", "5", ".", "0", "6", ".", "1", "9", "9", "0">>
Bday_29_02_2000 == <<"2", "9", ".", "0", "2", ".", "2", "0", "0", "0">>
Bday_29_02_2023 == <<"2", "9", ".", "0", "2", ".", "2", "0", "2", "3">>
Bday_17_03_90 == <<"1", "7", ".", "0", "3", ".", "9", "0">>
Bday_Iso == <<"1", "9", "9", "0", "-", "0", "6", "-", "1", "5">>
BirthdayInputs ==
    {Bday_15_06_1990, Bday_29_02_2000, Bday_29_02_2023, Bday_17_03_90, Bday_Iso, <<>>}

----------------------------------------------------------------------------
(* The calls of the Record / AddressBook interface *)

NoRec == 0

Call(op, out, rec, name, arg) ==
    [op |-> op, out |-> out, rec |-> rec, name |-> name, arg |-> arg,
     todays |-> <<>>, result |-> <<>>]

FreeIds == RecIds \ DOMAIN heap

Extend(h, r, record) == [j \in DOMAIN h \cup {r} |-> IF j = r THEN record ELSE h[j]]

\* record = Record(name, phone)
NewRecord(name, phone) ==
    LET made == RecordInit(name, phone) IN
    /\ made.exc = "" => FreeIds # {}
    /\ IF made.exc = ""
       THEN LET r == CHOOSE j \in FreeIds : \A o \in FreeIds : j <= o IN
            /\ heap' = Extend(heap, r, made.val)
            /\ last' = Call("Record", "", r, name, phone)
       ELSE /\ heap' = heap
            /\ last' = Call("Record", made.exc, NoRec, name, phone)
    /\ UNCHANGED <<data, clock, ticks, pc, printed>>

\* record.update_phone(phone)
UpdatePhone(r, phone) ==
    LET got == RecordUpdatePhone(heap[r], phone) IN
    /\ heap' = [heap EXCEPT ![r] = got.val]
    /\ last' = Call("update_phone", got.exc, r, heap[r].name, phone)
    /\ UNCHANGED <<data, clock, ticks, pc, printed>>

\* record.add_birthday(birthday)
AddBirthday(r, birthday) ==
    LET got == RecordAddBirthday(heap[r], birthday) IN
    /\ heap' = [heap EXCEPT ![r] = got.val]
    /\ last' = Call("add_birthday", got.exc, r, heap[r].name, birthday)
    /\ UNCHANGED <<data, clock, ticks, pc, printed>>

\* book.add_record(record)
AddRecord(r) ==
    /\ data' = AddRecordData(data, heap, r)
    /\ last' = Call("add_record", "", r, heap[r].name, <<>>)
    /\ UNCHANGED <<heap, clock, ticks, pc, printed>>

\* book.find(name)
Find(name) ==
    LET got == FindData(data, name) IN
    /\ last' = Call("find", got.exc, IF got.exc = "" THEN got.val ELSE NoRec,
                    name, <<>>)
    /\ UNCHANGED <<heap, data, clock, ticks, pc, printed>>

\* book.delete(name)
Delete(name) ==
    LET got == DeleteData(data, name) IN
    /\ data' = got.val
    /\ last' = Call("delete", got.exc, NoRec, name, <<>>)
    /\ UNCHANGED <<heap, clock, ticks, pc, printed>>

StartDate == MakeDate(2024, 6, 8)

Init ==
    /\ heap = [j \in {} |-> <<>>]
    /\ data = <<>>
    /\ clock = StartDate
    /\ ticks = 0
    /\ last = Call("", "", NoRec, <<>>, <<>>)
    /\ pc = "loop"
    /\ printed = <<>>

Next ==
    \/ \E name \in Names, phone \in PhoneInputs : NewRecord(name, phone)
    \/ \E r \in DOMAIN heap, phone \in PhoneInputs : UpdatePhone(r, phone)
    \/ \E r \in DOMAIN heap, birthday \in BirthdayInputs : AddBirthday(r, birthday)
    \/ \E r \in DOMAIN heap : AddRecord(r)
    \/ \E name \in Names : Find(name)
    \/ \E name \in Names : Delete(name)

Spec == Init /\ [][Next]_vars

----------------------------------------------------------------------------
(* The birthday query, on books of contacts with birthdays, as the clock
   runs *)

QueryCall(todays, result) ==
    [op |-> "get_birthdays_per_week", out |-> "", rec |-> NoRec, name |-> <<>>,
     arg |-> <<>>, todays |-> todays, result |-> result]

\* book.get_birthdays_per_week(): datetime.today() is called in every
\* iteration that reaches line 66, and midnight may pass between two
\* iterations (just before iteration k).
GetBirthdaysPerWeek ==
    \E k \in 1..(Len(data) + 1) :
        /\ k <= Len(data) => ticks < MaxTicks
        /\ LET todayAt == TodayAt(data, clock, k) IN
           last' = QueryCall(TodaysRead(data, heap, todayAt),
                             UpcomingBirthdays(data, heap, todayAt, Len(data)))
        /\ clock' = IF k <= Len(data) THEN NextDay(clock) ELSE clock
        /\ ticks' = IF k <= Len(data) THEN ticks + 1 ELSE ticks
        /\ UNCHANGED <<heap, data, pc, printed>>

\* Midnight passes between two calls.
Tick ==
    /\ ticks < MaxTicks
    /\ clock' = NextDay(clock)
    /\ ticks' = ticks + 1
    /\ UNCHANGED <<heap, data, last, pc, printed>>

Bday_20_06_1985 == <<"2", "0", ".", "0", "6", ".", "1", "9", "8", "5">>
Bday_10_06_2001 == <<"1", "0", ".", "0", "6", ".", "2", "0", "0", "1">>
Bday_16_06_1992 == <<"1", "6", ".", "0", "6", ".", "1", "9", "9", "2">>
Bday_01_01_1999 == <<"0", "1", ".", "0", "1", ".", "1", "9", "9", "9">>
Bday_01_03_1991 == <<"0", "1", ".", "0", "3", ".", "1", "9", "9", "1">>

QueryBirthdays ==
    {Bday_15_06_1990, Bday_29_02_2000, Bday_20_06_1985, Bday_10_06_2001,
     Bday_16_06_1992, Bday_01_01_1999, Bday_01_03_1991}

\* The dates the clock may show at the start: before the end of February
\* in a common and in a leap year, a Saturday in June 2024, the last week
\* of a year.
QueryStartDates ==
    {MakeDate(2023, 2, 22), MakeDate(2024, 2, 23), MakeDate(2024, 6, 8),
     MakeDate(2023, 12, 26)}

\* Contacts to add, in order: a name and a birthday string, or no birthday.
ContactLists ==
    {cs \in UNION {[1..n -> [name : Names, birthday : QueryBirthdays \cup {None}]] :
                     n \in 0..MaxRecords} :
        \A i, j \in 1..Len(cs) : cs[i].name = cs[j].name => i = j}

\* The Record made by Record(name, PhoneA) and add_birthday(birthday).
MadeRecord(c) ==
    LET record == RecordInit(c.name, PhoneA).val IN
    IF c.birthday = None THEN record
    ELSE RecordAddBirthday(record, c.birthday).val

BookHeap(cs) == [r \in 1..Len(cs) |-> MadeRecord(cs[r])]

RECURSIVE BookData(_, _)
\* The dict after add_record of the first n Records.
BookData(cs, n) ==
    IF n = 0 THEN <<>>
    ELSE AddRecordData(BookData(cs, n - 1), BookHeap(cs), n)

InitQuery ==
    /\ \E cs \in ContactLists :
         /\ heap = BookHeap(cs)
         /\ data = BookData(cs, Len(cs))
    /\ clock \in QueryStartDates
    /\ ticks = 0
    /\ last = Call("", "", NoRec, <<>>, <<>>)
    /\ pc = "loop"
    /\ printed = <<>>

NextQuery ==
    \/ GetBirthdaysPerWeek
    \/ Tick

SpecQuery == InitQuery /\ [][NextQuery]_vars

----------------------------------------------------------------------------
(* main(): the command loop *)

\* parse_input: ValueError when the line has no word (cmd, *args = []).
ParseInput(user_input) ==
    LET words == Split(user_input) IN
    IF words = <<>> THEN Raise("ValueError")
    ELSE Return(<<Lower(Head(words))>> \o Tail(words))

\* input_error: what the wrapped handler returns for what func raised.
InputError(exc, returned) ==
    CASE exc = "InvalidPhoneNumberError" -> <<"text", "Invalid phone number.">>
      [] exc = "ValueError" -> <<"text", "Invalid parameters.">>
      [] exc = "KeyError" -> <<"text", "A contact with that name doesn't exist.">>
      [] exc = "" -> returned

\* name, phone = args / name, = args
Unpack(args, n) == IF Len(args) = n THEN Return(args) ELSE Raise("ValueError")

\* The Records still referenced once the book is d.
Referenced(h, d) == [r \in {d[i].rec : i \in 1..Len(d)} |-> h[r]]

W_add == <<"a", "d", "d">>
W_change == <<"c", "h", "a", "n", "g", "e">>
W_phone == <<"p", "h", "o", "n", "e">>
W_all == <<"a", "l", "l">>
W_add_birthday == W_add \o <<"-", "b", "i", "r", "t", "h", "d", "a", "y">>
W_show_birthday == <<"s", "h", "o", "w", "-", "b", "i", "r", "t", "h", "d", "a", "y">>
W_birthdays == <<"b", "i", "r", "t", "h", "d", "a", "y", "s">>
W_hello == <<"h", "e", "l", "l", "o">>
W_close == <<"c", "l", "o", "s", "e">>
W_exit == <<"e", "x", "i", "t">>
W_EXIT == <<"E", "X", "I", "T">>
W_bogus == <<"b", "o", "g", "u", "s">>

Known ==
    {W_close, W_exit, W_hello, W_add, W_change, W_phone, W_all, W_add_birthday,
     W_show_birthday, W_birthdays}

RECURSIVE Join(_)
\* The words with one space between them.
Join(words) ==
    IF words = <<>> THEN <<>>
    ELSE IF Len(words) = 1 THEN words[1]
    ELSE words[1] \o <<" ">> \o Join(Tail(words))

\* The lines the user may type.
Lines ==
    {<<>>, <<" ">>} \cup
    {Join(ws) : ws \in
        {<<W_hello>>, <<W_close>>, <<W_EXIT>>, <<W_bogus>>, <<W_all>>, <<W_birthdays>>,
         <<W_add, Ann, PhoneA>>, <<W_add, Ann, PhoneB>>, <<W_add, Bob, PhoneA>>,
         <<W_add, Ann, PhoneShort>>, <<W_add, Ann>>,
         <<W_change, Ann, PhoneB>>, <<W_change, Bob, PhoneLetter>>, <<W_change, Ann>>,
         <<W_phone, Ann>>, <<W_phone, Bob>>, <<W_phone>>,
         <<W_add_birthday, Ann, Bday_15_06_1990>>, <<W_add_birthday, Bob, Bday_10_06_2001>>,
         <<W_add_birthday, Ann, Bday_17_03_90>>, <<W_add_birthday, Ann>>,
         <<W_show_birthday, Ann>>, <<W_show_birthday>>}}

MainCall(exc, command, line) == Call("main", exc, NoRec, command, line)

\* A line read by input() and what parse_input makes of it.
Inputs == {[line |-> l, parsed |-> ParseInput(l)] : l \in Lines}

\* Line 163 raises: nothing catches the ValueError of parse_input.
ParseFails(inp) ==
    /\ pc = "loop"
    /\ inp.parsed.exc # ""
    /\ pc' = "crashed"
    /\ last' = MainCall(inp.parsed.exc, <<>>, inp.line)
    /\ UNCHANGED <<heap, data, clock, ticks, printed>>

\* The command and the arguments of a line that parses.
Command(inp) == Head(inp.parsed.val)
Args(inp) == Tail(inp.parsed.val)

\* The loop is running and the line's command is one of cmds.
Dispatched(inp, cmds) ==
    /\ pc = "loop"
    /\ inp.parsed.exc = ""
    /\ Command(inp) \in cmds

\* Lines 165-167
CmdClose(inp) ==
    /\ Dispatched(inp, {W_close, W_exit})
    /\ printed' = <<<<"text", "Good bye!">>>>
    /\ pc' = "exited"
    /\ last' = MainCall("", Command(inp), inp.line)
    /\ UNCHANGED <<heap, data, clock, ticks>>

\* Lines 168-169
CmdHello(inp) ==
    /\ Dispatched(inp, {W_hello})
    /\ printed' = <<<<"text", "How can I help you?">>>>
    /\ last' = MainCall("", Command(inp), inp.line)
    /\ UNCHANGED <<heap, data, clock, ticks, pc>>

\* Lines 170-171: print(add_contact(args, book)); the Record an entry
\* held before is no longer referenced.
CmdAdd(inp) ==
    /\ Dispatched(inp, {W_add})
    /\ LET args == Unpack(Args(inp), 2)
           made == IF args.exc # "" THEN args
                   ELSE RecordInit(args.val[1], args.val[2])
       IN /\ made.exc = "" => FreeIds # {}
          /\ IF made.exc = ""
             THEN LET r == CHOOSE j \in FreeIds : \A o \in FreeIds : j <= o
                      h == Extend(heap, r, made.val)
                      d == AddRecordData(data, h, r)
                  IN data' = d /\ heap' = Referenced(h, d)
             ELSE UNCHANGED <<heap, data>>
          /\ printed' = <<InputError(made.exc, <<"text", "Contact added.">>)>>
    /\ last' = MainCall("", Command(inp), inp.line)
    /\ UNCHANGED <<clock, ticks, pc>>

\* Lines 172-173: print(change_contact(args, book))
CmdChange(inp) ==
    /\ Dispatched(inp, {W_change})
    /\ LET args == Unpack(Args(inp), 2)
           found == IF args.exc # "" THEN args ELSE FindData(data, args.val[1])
           got == IF found.exc # "" THEN found
                  ELSE RecordUpdatePhone(heap[found.val], args.val[2])
       IN /\ heap' = IF found.exc = "" THEN [heap EXCEPT ![found.val] = got.val]
                     ELSE heap
          /\ printed' = <<InputError(got.exc, <<"text", "Contact changed.">>)>>
    /\ last' = MainCall("", Command(inp), inp.line)
    /\ UNCHANGED <<data, clock, ticks, pc>>

\* Lines 174-175: print(show_phone(args, book))
CmdPhone(inp) ==
    /\ Dispatched(inp, {W_phone})
    /\ LET args == Unpack(Args(inp), 1)
           found == IF args.exc # "" THEN args ELSE FindData(data, args.val[1])
       IN printed' = <<InputError(found.exc,
                          IF found.exc = "" THEN <<"phone", heap[found.val].phone>>
                          ELSE <<>>)>>
    /\ last' = MainCall("", Command(inp), inp.line)
    /\ UNCHANGED <<heap, data, clock, ticks, pc>>

\* Lines 176-179: the heading and one row for each Record
CmdAll(inp) ==
    /\ Dispatched(inp, {W_all})
    /\ printed' = <<<<"text", "Contact name", "Phone number">>>> \o
                  [i \in 1..Len(data) |->
                      <<"row", heap[data[i].rec].name, heap[data[i].rec].phone>>]
    /\ last' = MainCall("", Command(inp), inp.line)
    /\ UNCHANGED <<heap, data, clock, ticks, pc>>

\* Lines 180-181: print(add_birthday(args, book))
CmdAddBirthday(inp) ==
    /\ Dispatched(inp, {W_add_birthday})
    /\ LET args == Unpack(Args(inp), 2)
           found == IF args.exc # "" THEN args ELSE FindData(data, args.val[1])
           got == IF found.exc # "" THEN found
                  ELSE RecordAddBirthday(heap[found.val], args.val[2])
       IN /\ heap' = IF found.exc = "" THEN [heap EXCEPT ![found.val] = got.val]
                     ELSE heap
          /\ printed' = <<InputError(got.exc, <<"text", "Birthday added.">>)>>
    /\ last' = MainCall("", Command(inp), inp.line)
    /\ UNCHANGED <<data, clock, ticks, pc>>

\* Lines 182-183: print(show_birthday(args, book))
CmdShowBirthday(inp) ==
    /\ Dispatched(inp, {W_show_birthday})
    /\ LET args == Unpack(Args(inp), 1)
           found == IF args.exc # "" THEN args ELSE FindData(data, args.val[1])
       IN printed' = <<InputError(found.exc,
                          IF found.exc = "" THEN <<"birthday", heap[found.val].birthday>>
                          ELSE <<>>)>>
    /\ last' = MainCall("", Command(inp), inp.line)
    /\ UNCHANGED <<heap, data, clock, ticks, pc>>

RECURSIVE WeekLines(_, _, _)
\* Lines 188-196: the populated weekdays, from the day after weekday on.
WeekLines(upcoming, weekday, n) ==
    IF n = 0 THEN <<>>
    ELSE LET w == (weekday + 1) % 7 IN
         (IF w \in DOMAIN upcoming THEN <<<<"day", w, upcoming[w]>>>> ELSE <<>>)
         \o WeekLines(upcoming, w, n - 1)

\* Lines 184-196: the query, then datetime.today() once more for the
\* weekday the listing starts after; midnight may pass before iteration k
\* of the query, or after it and before line 187 (k = Len(data) + 1), or
\* not at all (k = Len(data) + 2).
CmdBirthdays(inp) ==
    /\ Dispatched(inp, {W_birthdays})
    /\ \E k \in 1..(Len(data) + 2) :
         /\ k <= Len(data) + 1 => ticks < MaxTicks
         /\ clock' = IF k <= Len(data) + 1 THEN NextDay(clock) ELSE clock
         /\ ticks' = IF k <= Len(data) + 1 THEN ticks + 1 ELSE ticks
         /\ LET upcoming == UpcomingBirthdays(data, heap, TodayAt(data, clock, k),
                                              Len(data))
            IN printed' = WeekLines(upcoming, Weekday(clock'), 7)
    /\ last' = MainCall("", Command(inp), inp.line)
    /\ UNCHANGED <<heap, data, pc>>

\* Lines 197-198
CmdInvalid(inp) ==
    /\ pc = "loop"
    /\ inp.parsed.exc = ""
    /\ Command(inp) \notin Known
    /\ printed' = <<<<"text", "Invalid command.">>>>
    /\ last' = MainCall("", Command(inp), inp.line)
    /\ UNCHANGED <<heap, data, clock, ticks, pc>>

InitMain ==
    /\ heap = [j \in {} |-> <<>>]
    /\ data = <<>>
    /\ clock = StartDate
    /\ ticks = 0
    /\ last = Call("", "", NoRec, <<>>, <<>>)
    /\ pc = "loop"
    /\ printed = <<<<"text", "Welcome to the assistant bot!">>>>

\* One turn of the while loop: input(), parse_input, the dispatch.
NextMain ==
    \/ \E inp \in Inputs :
         \/ ParseFails(inp)
         \/ CmdClose(inp)
         \/ CmdHello(inp)
         \/ CmdAdd(inp)
         \/ CmdChange(inp)
         \/ CmdPhone(inp)
         \/ CmdAll(inp)
         \/ CmdAddBirthday(inp)
         \/ CmdShowBirthday(inp)
         \/ CmdBirthdays(inp)
         \/ CmdInvalid(inp)
    \/ Tick

SpecMain == InitMain /\ [][NextMain]_vars

----------------------------------------------------------------------------
(* Properties of Record and AddressBook, checked under Spec *)

Keys(d) == {d[i].key : i \in 1..Len(d)}
Entries(d) == {d[i] : i \in 1..Len(d)}

TenDecimalDigits(s) == Len(s) = 10 /\ \A i \in 1..Len(s) : s[i] \in AsciiDigits

\* Inputs that are not ten characters or hold a letter.
MalformedPhones == {PhoneShort, PhoneLong, PhoneLetter, <<>>}

\* Inputs that are no date written day.month.year.
MalformedBirthdays == {Bday_29_02_2023, Bday_17_03_90, Bday_Iso, <<>>}

ExpectedDate(s) ==
    CASE s = Bday_15_06_1990 -> MakeDate(1990, 6, 15)
      [] s = Bday_29_02_2000 -> MakeDate(2000, 2, 29)

\* C3: every Record's phone is a string of exactly 10 decimal digits:
\* Record() and update_phone succeed, storing the input, exactly when the
\* input is 10 decimal digits, and raise InvalidPhoneNumberError otherwise.
C3_PhoneIsTenDecimalDigits ==
    /\ \A r \in DOMAIN heap : TenDecimalDigits(heap[r].phone)
    /\ last.op \in {"Record", "update_phone"} =>
         IF TenDecimalDigits(last.arg)
         THEN last.out = "" /\ heap[last.rec].phone = last.arg
         ELSE last.out = "InvalidPhoneNumberError"

\* C4: the book holds at most one Record per name and each entry's key is
\* its Record's name; add_record(r) on a present name replaces the entry
\* without merging, so find(r.name) then returns r itself, r is as it was,
\* and the number of entries grows only for a new name.
C4_OneRecordPerName ==
    [][/\ \A i, j \in 1..Len(data') : data'[i].key = data'[j].key => i = j
       /\ \A i \in 1..Len(data') :
            /\ data'[i].rec \in DOMAIN heap'
            /\ heap'[data'[i].rec].name = data'[i].key
       /\ last'.op = "add_record" =>
            /\ FindData(data', last'.name) = Return(last'.rec)
            /\ heap'[last'.rec] = heap[last'.rec]
            /\ Len(data') = IF last'.name \in Keys(data) THEN Len(data)
                            ELSE Len(data) + 1]_vars

\* add_record has just replaced an entry: the only entry is the Record
\* added, without birthday, while another Record of that name, with another
\* phone and a birthday, is no longer in the book.
C4_Witness ==
    /\ last.op = "add_record"
    /\ Len(data) = 1
    /\ data[1].rec = last.rec
    /\ heap[last.rec].birthday = None
    /\ \E o \in DOMAIN heap \ {last.rec} :
         /\ heap[o].name = last.name
         /\ heap[o].phone # heap[last.rec].phone
         /\ heap[o].birthday # None

\* C5: find and delete on an absent name raise KeyError and leave the book
\* as it was; delete on a present name removes exactly that entry, leaves
\* the others (and their order) alone, and find then raises KeyError.
C5_AbsentNameFails ==
    [][/\ last'.op = "find" =>
            /\ data' = data /\ heap' = heap
            /\ IF last'.name \in Keys(data)
               THEN last'.out = "" /\ [key |-> last'.name, rec |-> last'.rec] \in Entries(data)
               ELSE last'.out = "KeyError"
       /\ last'.op = "delete" =>
            /\ heap' = heap
            /\ IF last'.name \in Keys(data)
               THEN /\ last'.out = ""
                    /\ Len(data') = Len(data) - 1
                    /\ Entries(data') = {e \in Entries(data) : e.key # last'.name}
                    /\ \A i, j \in 1..Len(data') : i < j =>
                         \E a, b \in 1..Len(data) :
                           a < b /\ data[a] = data'[i] /\ data[b] = data'[j]
                    /\ FindData(data', last'.name).exc = "KeyError"
               ELSE last'.out = "KeyError" /\ data' = data]_vars

\* delete has removed an entry and another entry is still there.
C5_Witness ==
    /\ last.op = "delete"
    /\ last.out = ""
    /\ Len(data) = 1
    /\ data[1].key # last.name

C9_BirthdayNeverUnset ==
    [][/\ \A r \in DOMAIN heap' \ DOMAIN heap : heap'[r].birthday = None
       /\ \A r \in DOMAIN heap \cap DOMAIN heap' :
            /\ heap[r].birthday # None => heap'[r].birthday # None
            /\ heap'[r].birthday # heap[r].birthday =>
                 /\ last'.op = "add_birthday" /\ last'.out = "" /\ last'.rec = r
       /\ (last'.op = "add_birthday" /\ last'.out = "") =>
            heap'[last'.rec].birthday = Some(ExpectedDate(last'.arg))]_vars

\* update_phone has succeeded on a Record that has a birthday.
C9_Witness ==
    /\ last.op = "update_phone"
    /\ last.out = ""
    /\ heap[last.rec].birthday # None

----------------------------------------------------------------------------
(* Properties of the birthday query, checked under SpecQuery *)

Queried == last.op = "get_birthdays_per_week"

\* The names in the buckets of the result.
InResult(name) ==
    \E k \in DOMAIN last.result :
        \E j \in 1..Len(last.result[k]) : last.result[k][j] = name

\* The entries for which the query read the date.
Evaluated == {i \in 1..Len(data) : last.todays[i] # None}

TodayOf(i) == last.todays[i][1]
BirthdayOf(i) == heap[data[i].rec].birthday[1]

\* The occurrences of the birthday's month and day, in today's year and
\* the next, that are dates after today.
Occurrences(b, t) ==
    {d \in {MakeDate(y, b.month, b.day) : y \in {t.year, t.year + 1}} :
        ValidDate(d.year, d.month, d.day) /\ ToOrdinal(d) > ToOrdinal(t)}

FirstAfter(b, t) ==
    CHOOSE d \in Occurrences(b, t) :
        \A e \in Occurrences(b, t) : ToOrdinal(d) <= ToOrdinal(e)

OrdinalWeekday(o) == (o + 6) % 7

\* The first day, counted in ordinals, from date d on that is no Saturday
\* and no Sunday.
OffWeekend(d) ==
    CHOOSE o \in ToOrdinal(d)..(ToOrdinal(d) + 2) :
        /\ OrdinalWeekday(o) \notin {5, 6}
        /\ \A q \in ToOrdinal(d)..(o - 1) : OrdinalWeekday(q) \in {5, 6}

\* Days from today t to the congratulation date of birthday b.
DaysAhead(b, t) == OffWeekend(FirstAfter(b, t)) - ToOrdinal(t)

IsFeb29(b) == b.month = 2 /\ b.day = 29

\* C1: a contact with a birthday whose next occurrence exists is in the
\* result exactly when its congratulation date (the first occurrence after
\* today, moved off a weekend) is 1 to 7 days after today, today being the
\* date read for that contact.
C1_InResultIffWithinWindow ==
    Queried =>
        \A i \in Evaluated :
            Occurrences(BirthdayOf(i), TodayOf(i)) # {} =>
                (InResult(data[i].key) <=>
                    /\ 1 <= DaysAhead(BirthdayOf(i), TodayOf(i))
                    /\ DaysAhead(BirthdayOf(i), TodayOf(i)) <= 7)

\* One contact's birthday itself is at most 7 days ahead but its shifted
\* date is not, and it is left out; another one's birthday is today, and
\* it is left out.
C1_WitnessShiftedOut ==
    /\ Queried
    /\ \E i \in Evaluated :
         /\ Occurrences(BirthdayOf(i), TodayOf(i)) # {}
         /\ ToOrdinal(FirstAfter(BirthdayOf(i), TodayOf(i))) - ToOrdinal(TodayOf(i)) <= 7
         /\ DaysAhead(BirthdayOf(i), TodayOf(i)) > 7
         /\ ~InResult(data[i].key)
    /\ \E i \in Evaluated :
         /\ BirthdayOf(i).month = TodayOf(i).month
         /\ BirthdayOf(i).day = TodayOf(i).day
         /\ ~InResult(data[i].key)

\* C2: a contact in the result is in the bucket of the weekday of its
\* congratulation date: bucket 0, the Monday 7 - weekday days later, for a
\* next birthday on Saturday or Sunday, and the birthday's own weekday
\* otherwise; no bucket has key 5 or 6.
C2_BucketIsCongratulationWeekday ==
    Queried =>
        /\ DOMAIN last.result \subseteq 0..4
        /\ \A i \in Evaluated : \A k \in DOMAIN last.result :
             (\E j \in 1..Len(last.result[k]) : last.result[k][j] = data[i].key) =>
                LET nb == FirstAfter(BirthdayOf(i), TodayOf(i)) IN
                IF Weekday(nb) \in {5, 6}
                THEN k = 0 /\ OrdinalWeekday(ToOrdinal(nb) + (7 - Weekday(nb))) = 0
                ELSE k = Weekday(nb)

\* The result holds a contact born on a Saturday and one born on a Sunday
\* in bucket 0.
C2_WitnessWeekendToMonday ==
    /\ Queried
    /\ 0 \in DOMAIN last.result
    /\ \E i, j \in Evaluated :
         /\ InResult(data[i].key) /\ InResult(data[j].key)
         /\ Weekday(FirstAfter(BirthdayOf(i), TodayOf(i))) = 5
         /\ Weekday(FirstAfter(BirthdayOf(j), TodayOf(j))) = 6

\* The year the code looks for the birthday in has no 29 February: today's
\* year when it is a common year, the next year when today's is a leap
\* year whose 29 February is today or earlier.
NoFeb29(t) ==
    \/ ~IsLeap(t.year)
    \/ IsLeap(t.year) /\ ToOrdinal(MakeDate(t.year, 2, 29)) <= ToOrdinal(t)

LeftOut == {i \in Evaluated : IsFeb29(BirthdayOf(i)) /\ NoFeb29(TodayOf(i))}

\* C7: a contact born on 29 February is left out of the result, with no
\* error, whenever the candidate year has no 29 February, and the result
\* is what the query gives for the other contacts alone.
C7_LeapDayContactLeftOut ==
    Queried =>
        /\ last.out = ""
        /\ \A i \in LeftOut : ~InResult(data[i].key)
        /\ LET idx == SelectSeq([i \in 1..Len(data) |-> i], LAMBDA i : i \notin LeftOut)
               others == [n \in 1..Len(idx) |-> data[idx[n]]]
               todayAt == [n \in 1..Len(idx) |->
                             IF idx[n] \in Evaluated THEN TodayOf(idx[n]) ELSE clock]
           IN last.result = UpcomingBirthdays(others, heap, todayAt, Len(others))

\* A 29 February contact was left out in a leap year, on or after that
\* day, and another contact is in the result.
C7_WitnessLeapYearRolled ==
    /\ Queried
    /\ \E i \in LeftOut : IsLeap(TodayOf(i).year)
    /\ \E j \in Evaluated : InResult(data[j].key)

\* C8: one query evaluates every contact against one date, so that its
\* result is the result for the book and that single date.
C8_ResultOfOneDate ==
    Queried =>
        (Evaluated # {} =>
            \E i \in Evaluated :
                last.result =
                    UpcomingBirthdays(data, heap,
                                      [n \in 1..Len(data) |-> TodayOf(i)], Len(data)))

----------------------------------------------------------------------------
(* Property of the command loop, checked under SpecMain *)

\* C10: no error is fatal in the command loop: whatever a line makes a
\* command raise is caught and answered with a message, and the loop ends
\* only by the command close or exit.
C10_LoopEndsOnlyOnCloseOrExit ==
    pc # "loop" =>
        /\ pc = "exited"
        /\ last.out = ""
        /\ last.name \in {W_close, W_exit}

=============================================================================
